---- MODULE Spec2Model ----
(***************************************************************************)
(* Model of the splunk_saved_searches resource of the Terraform provider   *)
(* (splunk/resource_splunk_saved_searches.go): the Create / Read / Update  *)
(* / Delete handlers, the remote calls they issue and the stored view      *)
(* (schema.ResourceData) they read and write.                              *)
(*                                                                         *)
(* Strings that the code inspects character by character (entity names,    *)
(* which go through a regular expression) are sequences of one-character   *)
(* strings; all other strings are TLA+ strings.                            *)
(***************************************************************************)
EXTENDS Integers, Sequences, FiniteSets, TLC

VARIABLES
    d,          \* the stored view: *schema.ResourceData of the one resource
    remote,     \* the saved searches held by the Splunk server, by name
    op,         \* the lifecycle operation that ran last
    calls,      \* the remote calls that operation issued, in order
    result,     \* what that operation returned (nil, an error, or a panic)
    resp,       \* the response its read or delete call received, if any
    destroyed,  \* the resource was deleted (the SDK drops it from the state)
    synced,     \* whether a read has filled the stored view, and still stands
    streams,    \* the response bodies the operation obtained, deferred and closed
    inflight,   \* the handlers that run side by side, each with its own view
    fn,         \* the pure function under study, when one is
    arg,        \* its arguments
    ret         \* its results, once it was applied

vars == <<d, remote, op, calls, result, resp, destroyed, synced, streams, inflight, fn, arg, ret>>

----------------------------------------------------------------------------
(* Bounds of the model *)

\* entries the server may put in one response
MaxEntries == 2
\* messages the server may put in one error envelope
MaxMessages == 2
\* length of the action lists given to normalizeActionsString
MaxLen == 6
\* length of each action list of a pair given to suppressActionsDiff
MaxPairLen == 3

----------------------------------------------------------------------------
(* Values *)

NL == "\n"

\* entity names: "a", "ab" and the two-line name "a\nb"
Names == { <<"a">>, <<"a", "b">>, <<"a", NL, "b">> }

\* the names the operator gives the resource
ResourceNames == Names

\* d.Id() of a resource that has no identifier yet is the empty string
NoId == << >>

\* the sentinel defaults of the two Jira fields
JiraSummaryDefault == "Splunk Alert: $name$"
JiraDescriptionDefault == "The alert condition for '$name$' was triggered."

SummaryVals == {"", JiraSummaryDefault, "custom summary"}
DescriptionVals == {"", JiraDescriptionDefault}

ACL(o, a, s) == [owner |-> o, app |-> a, sharing |-> s]

\* the acl blocks an operator writes in this model
ACLBlocks ==
    { ACL("carol", "myapp", "global"),
      ACL("bob", "myapp", "user"),
      ACL("alice", "search", "app"),
      ACL("nobody", "search", "system"),
      ACL("carol", "myapp", "") }

\* models.ACLObject{}: the zero value
ZeroACL == ACL("", "", "")

Content(s, ds) == [summary |-> s, description |-> ds]
NoContent == Content("-", "-")
NoACL == ACL("-", "-", "-")

Null == [exists |-> FALSE, content |-> NoContent, acl |-> NoACL]
Entity(c, a) == [exists |-> TRUE, content |-> c, acl |-> a]

\* results of a lifecycle operation
Nil == [kind |-> "nil", msg |-> ""]
Err(m) == [kind |-> "error", msg |-> m]
Panic == [kind |-> "panic", msg |-> "index out of range"]

\* one remote call of the client, as the handler issued it
Call(c, n, o, a, cfg, acl, ok) ==
    [call |-> c, name |-> n, owner |-> o, app |-> a,
     content |-> cfg, acl |-> acl, ok |-> ok]

----------------------------------------------------------------------------
(* The server's answers *)

TransportError == "connection refused"

Texts == {"no such entity", "internal error"}

RECURSIVE SeqsUpTo(_, _)
SeqsUpTo(S, n) ==
    IF n = 0 THEN { << >> }
    ELSE LET shorter == SeqsUpTo(S, n - 1)
         IN shorter \cup { Append(s, x) : s \in shorter, x \in S }

\* an entry of the response: {name, content, acl}
Entry(n, e) == [name |-> n, content |-> e.content, acl |-> e.acl]

Body(p, es, ms) == [parses |-> p, entry |-> es, messages |-> ms]
Unparsable == Body(FALSE, << >>, << >>)

ErrBodies ==
    {Unparsable} \cup { Body(TRUE, << >>, ms) : ms \in SeqsUpTo(Texts, MaxMessages) }

Response(e, s, b) == [err |-> e, status |-> s, body |-> b]

\* How the server answers one read: a transport error, an error status with
\* an envelope, or a success status with a body that lists the saved searches
\* named by `names` (those that exist), in that order.
ReadAnswer(e, s, p, ns, ms) ==
    [err |-> e, status |-> s, parses |-> p, names |-> ns, messages |-> ms]

ReadAnswers ==
    { ReadAnswer(TRUE, 0, FALSE, << >>, << >>) }
      \cup { ReadAnswer(FALSE, s, FALSE, << >>, << >>) : s \in {200, 201} }
      \cup { ReadAnswer(FALSE, s, TRUE, ns, << >>) :
               s \in {200, 201}, ns \in SeqsUpTo(Names, MaxEntries) }
      \cup { ReadAnswer(FALSE, s, b.parses, << >>, b.messages) :
               s \in {404, 500}, b \in ErrBodies }

\* the answer to a read that is never issued
NoAnswer == ReadAnswer(TRUE, 0, FALSE, << >>, << >>)

RECURSIVE EntriesNamed(_, _)
EntriesNamed(rem, ns) ==
    IF ns = << >> THEN << >>
    ELSE (IF rem[Head(ns)].exists THEN << Entry(Head(ns), rem[Head(ns)]) >> ELSE << >>)
           \o EntriesNamed(rem, Tail(ns))

\* what ReadSavedSearches returns when the server holds rem and answers q
ReadResponse(rem, q) ==
    Response(q.err, q.status,
             IF q.parses THEN Body(TRUE, EntriesNamed(rem, q.names), q.messages)
             ELSE Unparsable)

\* what DeleteSavedSearches may return: a transport error, or a status and a body
DeleteResponses ==
    { Response(TRUE, 0, Unparsable) }
      \cup { Response(FALSE, s, b) : s \in {200, 201, 404, 500}, b \in ErrBodies }

----------------------------------------------------------------------------
(* Helpers of the handlers *)

\* json.NewDecoder(body).Decode(v) with the error dropped: a body that does
\* not parse leaves v at its zero value
Decode(body) ==
    IF body.parses THEN [entry |-> body.entry, messages |-> body.messages]
    ELSE [entry |-> << >>, messages |-> << >>]

\* regexp.MustCompile(`(.*)`).FindStringSubmatch(s)[1]: the leftmost match
\* starts at offset 0 and `.` matches every character but a line break
RECURSIVE FindStringSubmatch1(_)
FindStringSubmatch1(s) ==
    IF s = << >> \/ Head(s) = NL THEN << >>
    ELSE <<Head(s)>> \o FindStringSubmatch1(Tail(s))

\* d.GetOk("acl"): set, and not the zero value (an empty list)
GetOkACL(dd) == Len(dd.acl) > 0

getACLConfig(r) == IF Len(r) = 0 THEN ZeroACL ELSE r[1]

\* faulty variant: the pseudo-defaults are forgotten
getResourceDataSearchACL_NoDefault(dd) ==
    IF GetOkACL(dd) THEN getACLConfig(dd.acl) ELSE ZeroACL

getResourceDataSearchACL(dd) ==
    IF GetOkACL(dd) THEN getACLConfig(dd.acl)
    ELSE [ZeroACL EXCEPT !.app = "search", !.owner = "nobody"]

getSavedSearchesConfig(dd) == Content(dd.summary, dd.description)

flattenACL(acl) == <<acl>>

----------------------------------------------------------------------------
(* The pure helpers: text is a sequence of one-character strings *)

\* the characters of the model in the order of their byte values
Alphabet == <<"\t", " ", ",", "a", "b", "e", "h", "k", "m", "o", "s", "w", "x", "y">>

Code(c) == CHOOSE i \in 1..Len(Alphabet) : Alphabet[i] = c

\* unicode.IsSpace, on the characters of the model
IsSpace(c) == c \in {" ", "\t", "\n", "\r"}

RECURSIVE TrimLeft(_)
TrimLeft(s) == IF s # << >> /\ IsSpace(Head(s)) THEN TrimLeft(Tail(s)) ELSE s

RECURSIVE TrimRight(_)
TrimRight(s) ==
    IF s # << >> /\ IsSpace(s[Len(s)]) THEN TrimRight(SubSeq(s, 1, Len(s) - 1)) ELSE s

\* strings.TrimSpace
TrimSpace(s) == TrimRight(TrimLeft(s))

\* strings.Split(s, ","): the fields between the commas, empty ones included
RECURSIVE Split(_)
Split(s) ==
    IF s = << >> THEN << << >> >>
    ELSE IF Head(s) = "," THEN << << >> >> \o Split(Tail(s))
    ELSE LET rest == Split(Tail(s))
         IN << <<Head(s)>> \o rest[1] >> \o Tail(rest)

\* the < of Go strings: byte-wise lexicographic
RECURSIVE StrLess(_, _)
StrLess(x, y) ==
    IF y = << >> THEN FALSE
    ELSE IF x = << >> THEN TRUE
    ELSE IF Head(x) # Head(y) THEN Code(Head(x)) < Code(Head(y))
    ELSE StrLess(Tail(x), Tail(y))

RECURSIVE InsertSorted(_, _)
InsertSorted(x, list) ==
    IF list = << >> THEN <<x>>
    ELSE IF StrLess(x, Head(list)) THEN <<x>> \o list
    ELSE <<Head(list)>> \o InsertSorted(x, Tail(list))

\* sort.Strings
RECURSIVE SortStrings(_)
SortStrings(list) ==
    IF list = << >> THEN << >> ELSE InsertSorted(Head(list), SortStrings(Tail(list)))

\* strings.Join(list, ",")
RECURSIVE Join(_)
Join(list) ==
    IF list = << >> THEN << >>
    ELSE IF Len(list) = 1 THEN list[1]
    ELSE list[1] \o <<",">> \o Join(Tail(list))

\* the first loop of normalizeActionsString
TrimAll(list) == [i \in 1..Len(list) |-> TrimSpace(list[i])]

\* its second loop
RECURSIVE RemoveEmpty(_)
RemoveEmpty(list) ==
    IF list = << >> THEN << >>
    ELSE (IF Head(list) # << >> THEN <<Head(list)>> ELSE << >>) \o RemoveEmpty(Tail(list))

\* faulty variant: the members are left in the order of the input
normalizeActionsString_Unsorted(actions) ==
    IF actions = << >> THEN << >>
    ELSE Join(RemoveEmpty(TrimAll(Split(actions))))

\* faulty variant: the empty fields are removed before the trimming
normalizeActionsString_DropBeforeTrim(actions) ==
    IF actions = << >> THEN << >>
    ELSE Join(SortStrings(TrimAll(RemoveEmpty(Split(actions)))))

normalizeActionsString(actions) ==
    IF actions = << >> THEN << >>
    ELSE LET actionList == TrimAll(Split(actions))
             cleanActions == RemoveEmpty(actionList)
         IN Join(SortStrings(cleanActions))

\* faulty variant: the lists are compared as they were written
suppressActionsDiff_Raw(old, new) == old = new

suppressActionsDiff(old, new) == normalizeActionsString(old) = normalizeActionsString(new)

\* faulty variant: the stored and the configured value change places
suppressDefault_Swapped(defaultValue, old, new) == new = defaultValue /\ old = ""

\* the function suppressDefault(defaultValue) returns, applied to (k, old, new, d)
suppressDefault(defaultValue, old, new) == old = defaultValue /\ new = ""

\* faulty variant: the precision is not looked at
calculateWebhookPriority_SeverityOnly(severity, precision) ==
    CASE severity = "Critical" -> 4
      [] severity = "High" -> 3
      [] severity = "Medium" -> 2
      [] OTHER -> 1

calculateWebhookPriority(severity, precision) ==
    CASE severity = "Critical" /\ precision = "High" -> 4
      [] severity = "Critical" /\ precision = "Medium" -> 3
      [] severity = "Critical" /\ precision = "Low" -> 2
      [] severity = "High" /\ precision \in {"High", "Medium"} -> 3
      [] severity = "High" /\ precision = "Low" -> 2
      [] severity = "Medium" /\ precision \in {"High", "Medium"} -> 2
      [] severity = "Medium" /\ precision = "Low" -> 1
      [] severity = "Low" -> 1
      [] OTHER -> 1

\* d.Get of the optional and computed priority: the configured value when
\* there is one, and otherwise the value the stored view holds
ViewPriority(dd) == IF dd.prioritySet THEN dd.priority ELSE dd.storedPriority

\* d.GetOk of an integer field: the value, and whether it is not zero
GetOkInt(value) == [value |-> value, ok |-> value # 0]

\* dd: the fields of the resource data the webhook parameters are computed from
getCalculatedPriority(dd) ==
    LET priority == GetOkInt(ViewPriority(dd))
    IN IF priority.ok THEN priority.value
       ELSE IF dd.severity # "" /\ dd.precision # ""
            THEN calculateWebhookPriority(dd.severity, dd.precision)
            ELSE 1

\* strings.Contains
Contains(s, substr) ==
    \E i \in 1..(Len(s) - Len(substr) + 1) : SubSeq(s, i, i + Len(substr) - 1) = substr

Webhook == <<"w", "e", "b", "h", "o", "o", "k">>

\* faulty variant: the flag is the one an earlier read stored in the view
WebhookConfig_StoredFlag(dd) ==
    [Actions |-> normalizeActionsString(dd.actions),
     ActionWebhook |-> dd.storedWebhook,
     ActionWebhookParamPriority |-> getCalculatedPriority(dd)]

\* the fields of the payload that concern the webhook action
WebhookConfig(dd) ==
    [Actions |-> normalizeActionsString(dd.actions),
     ActionWebhook |-> Contains(normalizeActionsString(dd.actions), Webhook),
     ActionWebhookParamPriority |-> getCalculatedPriority(dd)]

\* faulty variant: the actions of the entry are stored as the server sent them
ReadActions_Raw(actions) == actions

\* d.Set("actions", normalizeActionsString(entry.Content.Actions))
ReadActions(actions) == normalizeActionsString(actions)

\* whether the plan that follows a read shows a change of a field with a
\* server-side default: the stored and the configured value differ, and the
\* DiffSuppressFunc of the field does not suppress the difference
SignificantDefault(defaultValue, stored, config) ==
    stored # config /\ ~suppressDefault(defaultValue, stored, config)

\* the same for the actions field
SignificantActions(stored, config) ==
    stored # config /\ ~suppressActionsDiff(stored, config)

\* a value of the persisted state (interface{}): its dynamic type and content
Value(t, s, b) == [type |-> t, text |-> s, bool |-> b]
Str(s) == Value("string", s, FALSE)
Bool(b) == Value("bool", "", b)
NilValue == Value("nil", "", FALSE)
Float == Value("float64", "", FALSE)

\* the panic of a failed type assertion
ConversionPanic == [kind |-> "panic", msg |-> "interface conversion"]

\* strconv.ParseBool
ParseBool(str) ==
    IF str \in {"1", "t", "T", "TRUE", "true", "True"} THEN [value |-> TRUE, err |-> Nil]
    ELSE IF str \in {"0", "f", "F", "FALSE", "false", "False"} THEN [value |-> FALSE, err |-> Nil]
    ELSE [value |-> FALSE, err |-> Err("invalid syntax")]

\* rawState[key]: the nil interface when the map has no such key
Lookup(rawState, key) == IF key \in DOMAIN rawState THEN rawState[key] ELSE NilValue

\* rawState[key] = value
Assign(rawState, key, value) ==
    [k \in DOMAIN rawState \cup {key} |-> IF k = key THEN value ELSE rawState[k]]

\* faulty variant: the error of ParseBool is returned
resourceAlertTrackStateUpgradeV0_ReportError(rawState) ==
    LET stored == Lookup(rawState, "alert_track")
        parsed == ParseBool(stored.text)
    IN IF stored.type # "string" THEN [rawState |-> rawState, err |-> ConversionPanic]
       ELSE IF parsed.err # Nil THEN [rawState |-> rawState, err |-> parsed.err]
       ELSE [rawState |-> Assign(rawState, "alert_track", Bool(parsed.value)), err |-> Nil]

\* the unchecked assertion .(string) panics on any value that is not a string,
\* the nil interface included; the error of ParseBool is discarded
resourceAlertTrackStateUpgradeV0(rawState) ==
    LET stored == Lookup(rawState, "alert_track")
    IN IF stored.type # "string" THEN [rawState |-> rawState, err |-> ConversionPanic]
       ELSE [rawState |-> Assign(rawState, "alert_track", Bool(ParseBool(stored.text).value)),
             err |-> Nil]

----------------------------------------------------------------------------
(* A handler in progress: the stored view, the server's state, the calls    *)
(* issued so far and the result; Running until the handler returns.         *)

Running == [kind |-> "running", msg |-> ""]

\* no response received
NoResponse == Response(TRUE, 0, Unparsable)

\* no body obtained, no Close deferred, none called
NoStreams == [opened |-> 0, deferred |-> 0, closed |-> 0]

Start(dd, rem) ==
    [d |-> dd, remote |-> rem, calls |-> << >>, result |-> Running, resp |-> NoResponse,
     streams |-> NoStreams]

\* the client returned a response, and with it a body to release
Obtained(st, httpResponse) ==
    IF httpResponse.err THEN st ELSE [st EXCEPT !.streams.opened = @ + 1]

\* defer resp.Body.Close()
DeferClose(st) == [st EXCEPT !.streams.deferred = @ + 1]

\* the handler returns, or panics: its deferred calls run
Return(st) ==
    [st EXCEPT !.streams.closed = @ + st.streams.deferred, !.streams.deferred = 0]

\* the server's default permissions for an entity created under (owner, app)
CreatedACL(owner, app) == ACL(owner, app, IF owner = "nobody" THEN "app" ELSE "user")

\* client.CreateSavedSearches: fails on a transport fault or a duplicate name
CreateSavedSearches(st, name, owner, app, cfg, fault) ==
    IF st.result # Running THEN st
    ELSE LET ok == ~fault /\ ~st.remote[name].exists
             c == Call("create", name, owner, app, cfg, NoACL, ok)
         IN IF ok
            THEN [st EXCEPT !.calls = Append(@, c),
                            !.remote[name] = Entity(cfg, CreatedACL(owner, app))]
            ELSE [st EXCEPT !.calls = Append(@, c), !.result = Err(TransportError)]

\* client.UpdateSavedSearches: fails on a transport fault or a missing entity
UpdateSavedSearches(st, name, owner, app, cfg, fault) ==
    IF st.result # Running THEN st
    ELSE LET ok == ~fault /\ st.remote[name].exists
             c == Call("update", name, owner, app, cfg, NoACL, ok)
         IN IF ok
            THEN [st EXCEPT !.calls = Append(@, c), !.remote[name].content = cfg]
            ELSE [st EXCEPT !.calls = Append(@, c), !.result = Err(TransportError)]

\* client.UpdateAcl: fails on a transport fault or a missing entity
UpdateAcl(st, owner, app, name, acl, fault) ==
    IF st.result # Running THEN st
    ELSE LET ok == ~fault /\ st.remote[name].exists
             c == Call("acl", name, owner, app, NoContent, acl, ok)
         IN IF ok
            THEN [st EXCEPT !.calls = Append(@, c), !.remote[name].acl = acl]
            ELSE [st EXCEPT !.calls = Append(@, c), !.result = Err(TransportError)]

\* d.SetId(name)
SetId(st, name) ==
    IF st.result # Running THEN st ELSE [st EXCEPT !.d.id = name]

----------------------------------------------------------------------------
(* Read *)

\* the for loop of getSavedSearchesConfigByName: the first entry whose name
\* passes the comparison, as a list of at most one entry (nil is << >>)
RECURSIVE FirstMatch(_, _)
FirstMatch(name, entries) ==
    IF entries = << >> THEN << >>
    ELSE IF name = FindStringSubmatch1(Head(entries).name) THEN << Head(entries) >>
    ELSE FirstMatch(name, Tail(entries))

\* faulty variant: the last message is reported instead of the first
FirstMessageError_Last(messages) ==
    IF Len(messages) = 0 THEN Panic ELSE Err(messages[Len(messages)])

\* errors.New(response.Messages[0].Text): indexing an empty slice panics
FirstMessageError(messages) ==
    IF Len(messages) = 0 THEN Panic ELSE Err(messages[1])

getSavedSearchesConfigByName(name, httpResponse) ==
    LET response == Decode(httpResponse.body)
    IN IF httpResponse.status \in {200, 201}
       THEN [entry |-> FirstMatch(name, response.entry), err |-> Nil]
       ELSE [entry |-> << >>, err |-> FirstMessageError(response.messages)]

\* d.Set of a field with a sentinel default: skipped when the remote value
\* is the sentinel
SetUnlessDefault(old, value, defaultValue) ==
    IF value # defaultValue THEN value ELSE old

\* faulty variant: the name is taken from the entry
ReadInto_EntryName(dd, entry) ==
    [dd EXCEPT !.name = entry.name,
               !.summary = SetUnlessDefault(@, entry.content.summary, JiraSummaryDefault),
               !.description =
                   SetUnlessDefault(@, entry.content.description, JiraDescriptionDefault),
               !.acl = flattenACL(entry.acl)]

\* the d.Set calls of savedSearchesRead
ReadInto(dd, entry) ==
    [dd EXCEPT !.name = dd.id,
               !.summary = SetUnlessDefault(@, entry.content.summary, JiraSummaryDefault),
               !.description =
                   SetUnlessDefault(@, entry.content.description, JiraDescriptionDefault),
               !.acl = flattenACL(entry.acl)]

\* faulty variant: an entity the server no longer lists is dropped from the view
savedSearchesRead_ForgetMissing(st, q) ==
    IF st.result # Running THEN st
    ELSE LET name == st.d.id
             aclObject == getResourceDataSearchACL(st.d)
             httpResponse == ReadResponse(st.remote, q)
             c == Call("read", name, aclObject.owner, aclObject.app, NoContent, NoACL,
                       ~httpResponse.err)
             st1 == [st EXCEPT !.calls = Append(@, c), !.resp = httpResponse]
         IN IF httpResponse.err THEN [st1 EXCEPT !.result = Err(TransportError)]
            ELSE LET r == getSavedSearchesConfigByName(name, httpResponse)
                 IN IF r.err # Nil THEN [st1 EXCEPT !.result = r.err]
                    ELSE IF r.entry = << >>
                    THEN [st1 EXCEPT !.d.id = NoId, !.result = Nil]
                    ELSE [st1 EXCEPT !.d = ReadInto(st.d, r.entry[1]), !.result = Nil]

\* faulty variant: a field of the view is written before the entry is looked for
savedSearchesRead_WriteFirst(st, q) ==
    IF st.result # Running THEN st
    ELSE LET name == st.d.id
             aclObject == getResourceDataSearchACL(st.d)
             httpResponse == ReadResponse(st.remote, q)
             c == Call("read", name, aclObject.owner, aclObject.app, NoContent, NoACL,
                       ~httpResponse.err)
             st1 == [st EXCEPT !.calls = Append(@, c), !.resp = httpResponse]
         IN IF httpResponse.err THEN [st1 EXCEPT !.result = Err(TransportError)]
            ELSE LET r == getSavedSearchesConfigByName(name, httpResponse)
                 IN IF r.err # Nil THEN [st1 EXCEPT !.result = r.err]
                    ELSE IF r.entry = << >>
                    THEN [st1 EXCEPT !.d.summary = "", !.result = Err("Unable to find resource")]
                    ELSE [st1 EXCEPT !.d = ReadInto(st.d, r.entry[1]), !.result = Nil]

\* faulty variant: Read substitutes "nobody" for a shared entity, as Update does
savedSearchesRead_SharedOwner(st, q) ==
    IF st.result # Running THEN st
    ELSE LET name == st.d.id
             aclObject == getResourceDataSearchACL(st.d)
             httpResponse == ReadResponse(st.remote, q)
             c == Call("read", name, IF aclObject.sharing # "user" THEN "nobody" ELSE aclObject.owner, aclObject.app, NoContent, NoACL,
                       ~httpResponse.err)
             st1 == [st EXCEPT !.calls = Append(@, c), !.resp = httpResponse]
         IN IF httpResponse.err THEN [st1 EXCEPT !.result = Err(TransportError)]
            ELSE LET r == getSavedSearchesConfigByName(name, httpResponse)
                 IN IF r.err # Nil THEN [st1 EXCEPT !.result = r.err]
                    ELSE IF r.entry = << >>
                    THEN [st1 EXCEPT !.result = Err("Unable to find resource")]
                    ELSE [st1 EXCEPT !.d = ReadInto(st.d, r.entry[1]), !.result = Nil]

savedSearchesRead(st, q) ==
    IF st.result # Running THEN st
    ELSE LET name == st.d.id
             aclObject == getResourceDataSearchACL(st.d)
             httpResponse == ReadResponse(st.remote, q)
             c == Call("read", name, aclObject.owner, aclObject.app, NoContent, NoACL,
                       ~httpResponse.err)
             st1 == Obtained([st EXCEPT !.calls = Append(@, c), !.resp = httpResponse],
                             httpResponse)
         IN IF httpResponse.err THEN Return([st1 EXCEPT !.result = Err(TransportError)])
            ELSE LET st2 == DeferClose(st1)
                     r == getSavedSearchesConfigByName(name, httpResponse)
                 IN IF r.err # Nil THEN Return([st2 EXCEPT !.result = r.err])
                    ELSE IF r.entry = << >>
                    THEN Return([st2 EXCEPT !.result = Err("Unable to find resource")])
                    ELSE Return([st2 EXCEPT !.d = ReadInto(st.d, r.entry[1]),
                                            !.result = Nil])

----------------------------------------------------------------------------
(* Create *)

\* fmt.Errorf("savedSearchesCreate: updateacl: %s...", err)
WrapCreateAclError(before, after) ==
    IF before.result = Running /\ after.result # Running
    THEN [after EXCEPT !.result = Err("savedSearchesCreate: updateacl: " \o after.result.msg)]
    ELSE after

\* faulty variant: Create substitutes "nobody" for a shared entity, as Update does
CreateBeforeRead_SharedOwner(dd, rem, createFault, aclFault) ==
    LET name == dd.name
        aclObject == getResourceDataSearchACL(dd)
        owner == IF aclObject.sharing # "user" THEN "nobody" ELSE aclObject.owner
        s1 == CreateSavedSearches(Start(dd, rem), name, owner, aclObject.app,
                                  getSavedSearchesConfig(dd), createFault)
        s2 == IF GetOkACL(dd)
              THEN WrapCreateAclError(s1,
                       UpdateAcl(s1, owner, aclObject.app, name, aclObject, aclFault))
              ELSE s1
    IN SetId(s2, name)

\* faulty variant: Create deletes the entity again when its permission update fails
CreateBeforeRead_Rollback(dd, rem, createFault, aclFault) ==
    LET name == dd.name
        aclObject == getResourceDataSearchACL(dd)
        s1 == CreateSavedSearches(Start(dd, rem), name, aclObject.owner, aclObject.app,
                                  getSavedSearchesConfig(dd), createFault)
        s2 == IF GetOkACL(dd)
              THEN WrapCreateAclError(s1,
                       UpdateAcl(s1, aclObject.owner, aclObject.app, name, aclObject, aclFault))
              ELSE s1
    IN IF s1.result = Running /\ s2.result # Running
       THEN [s2 EXCEPT !.remote[name] = Null,
                       !.calls = Append(@, Call("delete", name, aclObject.owner,
                                                aclObject.app, NoContent, NoACL, TRUE))]
       ELSE SetId(s2, name)

\* faulty variant: the identifier is recorded as soon as the entity is created
CreateBeforeRead_EarlyId(dd, rem, createFault, aclFault) ==
    LET name == dd.name
        aclObject == getResourceDataSearchACL(dd)
        s1 == SetId(CreateSavedSearches(Start(dd, rem), name, aclObject.owner, aclObject.app,
                                        getSavedSearchesConfig(dd), createFault), name)
    IN IF GetOkACL(dd)
       THEN WrapCreateAclError(s1,
                UpdateAcl(s1, aclObject.owner, aclObject.app, name, aclObject, aclFault))
       ELSE s1

\* savedSearchesCreate up to its closing read
CreateBeforeRead(dd, rem, createFault, aclFault) ==
    LET name == dd.name
        savedSearchesConfig == getSavedSearchesConfig(dd)
        aclObject == getResourceDataSearchACL(dd)
        s1 == CreateSavedSearches(Start(dd, rem), name, aclObject.owner, aclObject.app,
                                  savedSearchesConfig, createFault)
        s2 == IF GetOkACL(dd)
              THEN WrapCreateAclError(s1,
                       UpdateAcl(s1, aclObject.owner, aclObject.app, name, aclObject, aclFault))
              ELSE s1
    IN SetId(s2, name)

savedSearchesCreate(dd, rem, createFault, aclFault, q) ==
    savedSearchesRead(CreateBeforeRead(dd, rem, createFault, aclFault), q)

----------------------------------------------------------------------------
(* Update *)

\* faulty variant: Update acts as the requested owner whatever the sharing
UpdateOwner_Requested(aclObject) == aclObject.owner

\* the owner both calls of Update are issued under
UpdateOwner(aclObject) ==
    IF aclObject.sharing # "user" THEN "nobody" ELSE aclObject.owner

\* faulty variant: the permissions are updated before the entity
UpdateBeforeRead_AclFirst(dd, rem, updateFault, aclFault) ==
    LET aclObject == getACLConfig(dd.acl)
        owner == UpdateOwner(aclObject)
        s1 == UpdateAcl(Start(dd, rem), owner, aclObject.app, dd.id, aclObject, aclFault)
    IN UpdateSavedSearches(s1, dd.id, owner, aclObject.app,
                           getSavedSearchesConfig(dd), updateFault)

\* faulty variant: the error of the permission update is dropped
UpdateBeforeRead_IgnoreAclError(dd, rem, updateFault, aclFault) ==
    LET aclObject == getACLConfig(dd.acl)
        owner == UpdateOwner(aclObject)
        s1 == UpdateSavedSearches(Start(dd, rem), dd.id, owner, aclObject.app,
                                  getSavedSearchesConfig(dd), updateFault)
        s2 == UpdateAcl(s1, owner, aclObject.app, dd.id, aclObject, aclFault)
    IN IF s1.result = Running THEN [s2 EXCEPT !.result = Running] ELSE s2

\* savedSearchesUpdate up to its closing read
UpdateBeforeRead(dd, rem, updateFault, aclFault) ==
    LET savedSearchesConfig == getSavedSearchesConfig(dd)
        aclObject == getACLConfig(dd.acl)
        owner == UpdateOwner(aclObject)
        s1 == UpdateSavedSearches(Start(dd, rem), dd.id, owner, aclObject.app,
                                  savedSearchesConfig, updateFault)
    IN UpdateAcl(s1, owner, aclObject.app, dd.id, aclObject, aclFault)

savedSearchesUpdate(dd, rem, updateFault, aclFault, q) ==
    savedSearchesRead(UpdateBeforeRead(dd, rem, updateFault, aclFault), q)

----------------------------------------------------------------------------
(* Delete *)

\* client.DeleteSavedSearches: the server removes the entity when it answers
\* with a success status
DeleteSavedSearches(st, name, owner, app, r) ==
    LET c == Call("delete", name, owner, app, NoContent, NoACL, ~r.err)
        st1 == Obtained([st EXCEPT !.calls = Append(@, c), !.resp = r], r)
    IN IF r.err THEN [st1 EXCEPT !.result = Err(TransportError)]
       ELSE IF r.status \in {200, 201} THEN [st1 EXCEPT !.remote[name] = Null]
       ELSE st1

\* faulty variant: the body is closed where it was decoded, and nowhere else
savedSearchesDelete_CloseAfterDecode(dd, rem, r) ==
    LET aclObject == getACLConfig(dd.acl)
        s1 == DeleteSavedSearches(Start(dd, rem), dd.id, aclObject.owner, aclObject.app, r)
    IN IF s1.result # Running THEN s1
       ELSE IF r.status \in {200, 201} THEN [s1 EXCEPT !.result = Nil]
       ELSE Return(DeferClose([s1 EXCEPT !.result =
                                   FirstMessageError(Decode(r.body).messages)]))

savedSearchesDelete(dd, rem, r) ==
    LET aclObject == getACLConfig(dd.acl)
        s1 == DeleteSavedSearches(Start(dd, rem), dd.id, aclObject.owner, aclObject.app, r)
    IN IF s1.result # Running THEN Return(s1)
       ELSE LET s2 == DeferClose(s1)
            IN IF r.status \in {200, 201} THEN Return([s2 EXCEPT !.result = Nil])
               ELSE Return([s2 EXCEPT !.result =
                                FirstMessageError(Decode(r.body).messages)])

----------------------------------------------------------------------------
(* The state machine *)

Blocks == { << >> } \cup { <<b>> : b \in ACLBlocks }

\* the saved searches of other owners that the server holds from the start
Foreign == Entity(Content("", JiraDescriptionDefault), ACL("admin", "search", "global"))

Init ==
    /\ d \in [id : {NoId}, name : ResourceNames, summary : SummaryVals,
              description : DescriptionVals, acl : Blocks]
    /\ remote \in { r \in [Names -> {Null, Foreign}] :
                      \A n \in Names \ {d.name} : r[n] = Foreign }
    /\ op = "none"
    /\ calls = << >>
    /\ result = Nil
    /\ resp = NoResponse
    /\ destroyed = FALSE
    /\ synced = "never"
    /\ streams = NoStreams
    /\ inflight = << >>
    /\ fn = "none"
    /\ arg = << >>
    /\ ret = << >>

\* The stored view is reconciled when a handler ends with a read that
\* succeeded; it no longer is when a later Read or Update fails.  A Delete
\* neither reads nor writes the view.
Reconciled(name, st, was) ==
    IF name = "Delete" THEN was
    ELSE IF st.result = Nil THEN "yes"
    ELSE IF was = "yes" THEN "no"
    ELSE was

Finish(name, st) ==
    /\ op' = name
    /\ synced' = Reconciled(name, st, synced)
    /\ d' = st.d
    /\ remote' = st.remote
    /\ calls' = st.calls
    /\ result' = st.result
    /\ resp' = st.resp
    /\ streams' = st.streams
    /\ UNCHANGED <<inflight, fn, arg, ret>>

\* Between two operations the SDK builds the stored view afresh from the
\* saved state and the configuration, in which the operator may have edited
\* one optional field; the handlers run on a view prepared this way.
Plan ==
    /\ ~destroyed
    /\ \/ d' = d /\ op \notin {"none", "Plan"}
       \/ \E v \in SummaryVals \ {d.summary} : d' = [d EXCEPT !.summary = v]
       \/ \E v \in DescriptionVals \ {d.description} : d' = [d EXCEPT !.description = v]
       \/ \E b \in ACLBlocks \ {getACLConfig(d.acl)} : d' = [d EXCEPT !.acl = <<b>>]
    /\ op' = "Plan"
    /\ calls' = << >>
    /\ result' = Nil
    /\ resp' = NoResponse
    /\ streams' = NoStreams
    /\ synced' = (IF d' # d /\ synced = "yes" THEN "no" ELSE synced)
    /\ UNCHANGED <<remote, destroyed, inflight, fn, arg, ret>>

Prepared == ~destroyed /\ op \in {"none", "Plan"}

\* the read answers to draw for a handler that reads last: none when an
\* earlier step already ended the handler
AnswersFor(before) == IF before.result = Running THEN ReadAnswers ELSE {NoAnswer}

Create ==
    /\ Prepared
    /\ d.id = NoId
    /\ \E createFault \in BOOLEAN, aclFault \in BOOLEAN :
         \E q \in AnswersFor(CreateBeforeRead(d, remote, createFault, aclFault)) :
            Finish("Create", savedSearchesCreate(d, remote, createFault, aclFault, q))
    /\ UNCHANGED destroyed

Read ==
    /\ Prepared
    /\ d.id # NoId
    /\ \E q \in ReadAnswers : Finish("Read", savedSearchesRead(Start(d, remote), q))
    /\ UNCHANGED destroyed

Update ==
    /\ Prepared
    /\ d.id # NoId
    /\ \E updateFault \in BOOLEAN, aclFault \in BOOLEAN :
         \E q \in AnswersFor(UpdateBeforeRead(d, remote, updateFault, aclFault)) :
            Finish("Update", savedSearchesUpdate(d, remote, updateFault, aclFault, q))
    /\ UNCHANGED destroyed

\* the SDK drops the resource from the state when Delete returns nil
Delete ==
    /\ Prepared
    /\ d.id # NoId
    /\ \E r \in DeleteResponses :
         LET st == savedSearchesDelete(d, remote, r)
         IN /\ Finish("Delete", st)
            /\ destroyed' = (st.result = Nil)

Next == Plan \/ Create \/ Read \/ Update \/ Delete

Spec == Init /\ [][Next]_vars

----------------------------------------------------------------------------
(* The pure helpers on their own: each is applied once to an input drawn
   from a bounded set, while the resource stays as it was constructed *)

\* the characters action lists are made of
ActionChars == {"a", "b", ",", " "}

ActionStrings == SeqsUpTo(ActionChars, MaxLen)

\* the list of the operator's example: "b, a,a"
ExampleList == <<"b", ",", " ", "a", ",", "a">>

NormalizeInputs == { <<x>> : x \in ActionStrings \cup {ExampleList} }

Idle ==
    /\ d = [id |-> NoId, name |-> <<"a">>, summary |-> "", description |-> "", acl |-> << >>]
    /\ remote = [n \in Names |-> Null]
    /\ op = "none"
    /\ calls = << >>
    /\ result = Nil
    /\ resp = NoResponse
    /\ destroyed = FALSE
    /\ synced = "never"
    /\ streams = NoStreams

\* the example list with its members in another order and spaced otherwise
ExampleReordered == <<"a", ",", " ", "b", " ", ",", "a">>
\* the example list with a written once
ExampleOnce == <<"a", ",", "b">>

PairStrings == SeqsUpTo(ActionChars, MaxPairLen)

DiffInputs ==
    (PairStrings \X PairStrings)
        \cup { <<ExampleList, ExampleReordered>>, <<ExampleList, ExampleOnce>> }

\* stored or configured text of a field with a server-side default
FieldTexts == {"", "x", JiraSummaryDefault, JiraDescriptionDefault}
Sentinels == {JiraSummaryDefault, JiraDescriptionDefault}

SuppressInputs == [defaultValue : Sentinels, old : FieldTexts, new : FieldTexts]

\* severities and precisions: the documented ones, none, and others
Levels == {"Critical", "High", "Medium", "Low", "", "critical", "Info"}

PriorityInputs == [severity : Levels, precision : Levels]

\* the priority the operator may give
Priorities == 0..5

\* the fields read by getCalculatedPriority and getSavedSearchesConfig, for a
\* resource that has no stored view yet; an unset priority reads as zero
PriorityData(set, p, sev, prec, acts) ==
    [prioritySet |-> set, priority |-> p, severity |-> sev, precision |-> prec,
     actions |-> acts, storedPriority |-> 0, storedWebhook |-> FALSE]

\* the same once a read has stored the server's priority and webhook flag
WithStored(dd, p, w) == [dd EXCEPT !.storedPriority = p, !.storedWebhook = w]

CalculatedInputs ==
    { PriorityData(TRUE, p, sev, prec, << >>) :
        p \in Priorities, sev \in Levels, prec \in Levels }
    \cup { PriorityData(FALSE, 0, sev, prec, << >>) : sev \in Levels, prec \in Levels }

\* action lists with and without the webhook action
WebhookLists ==
    { << >>,
      Webhook,
      <<"a">>,
      <<"a", ",", " ">> \o Webhook,
      Webhook \o <<" ", ",", "b">>,
      Webhook \o <<"s">>,
      <<"m", "y">> \o Webhook,
      <<"a", ",", "x">> \o Webhook \o <<"y", ",", "b">>,
      <<"w", "e", "b">>,
      <<"w", "e", "b", ",", "h", "o", "o", "k">> }

\* the views Create builds its payload from
CreateInputs ==
    { PriorityData(TRUE, p, sev, prec, acts) :
        p \in {0, 2}, sev \in {"", "Critical"}, prec \in {"", "High"},
        acts \in WebhookLists }
    \cup { PriorityData(FALSE, 0, sev, prec, acts) :
              sev \in {"", "Critical"}, prec \in {"", "High"}, acts \in WebhookLists }

\* the priorities a read may have stored
StoredPriorities == {0, 1, 4}

\* the views of Create and those of Update, which follow a read
ConfigInputs ==
    CreateInputs \cup { WithStored(dd, p, w) :
                          dd \in CreateInputs, p \in StoredPriorities, w \in BOOLEAN }

\* a field with a server-side default: what the configuration holds, what the
\* stored view holds (at first what Create sent), and the default
DefaultCycles ==
    { [config |-> c, stored |-> c, defaultValue |-> dv] :
        c \in FieldTexts, dv \in Sentinels }

\* the action lists an operator configures in the cycles
ConfiguredActions ==
    { << >>, <<"a">>, <<"a", ",", "b">>, <<"b", ",", " ", "a">>, <<"a", ",", "a">> }

\* the actions field: what the configuration holds and what the view holds
ActionCycles ==
    { [config |-> c, stored |-> normalizeActionsString(c)] : c \in ConfiguredActions }

\* what version 0 may hold in alert_track
TrackTexts == {"true", "false", "auto", "1", "0", "True", "F", "yes", ""}
TrackValues == {Str(t) : t \in TrackTexts} \cup {Bool(TRUE), Bool(FALSE), NilValue, Float}

\* persisted states of version 0: with or without alert_track, and another field
OtherFields ==
    { [k \in {"name"} |-> Str("a")],
      [k \in {"name", "search"} |-> IF k = "name" THEN Str("b") ELSE Str("x")] }

RawStates ==
    OtherFields \cup { Assign(o, "alert_track", v) : o \in OtherFields, v \in TrackValues }

FnInit ==
    /\ Idle
    /\ inflight = << >>
    /\ ret = << >>
    /\ \/ fn = "normalizeActionsString" /\ arg \in NormalizeInputs
       \/ fn = "suppressActionsDiff" /\ arg \in DiffInputs
       \/ fn = "suppressDefault" /\ arg \in SuppressInputs
       \/ fn = "calculateWebhookPriority" /\ arg \in PriorityInputs
       \/ fn = "getCalculatedPriority" /\ arg \in CalculatedInputs
       \/ fn = "getSavedSearchesConfig" /\ arg \in ConfigInputs
       \/ fn = "resourceAlertTrackStateUpgradeV0" /\ arg \in RawStates
       \/ fn = "readActions" /\ arg \in NormalizeInputs
       \/ fn = "readThenDiff" /\ arg \in DefaultCycles
       \/ fn = "readThenDiffActions" /\ arg \in ActionCycles

Apply(name, value) ==
    /\ fn = name
    /\ ret = << >>
    /\ ret' = <<value>>
    /\ UNCHANGED <<d, remote, op, calls, result, resp, destroyed, synced, streams, inflight, fn, arg>>

ApplyNormalize == Apply("normalizeActionsString", normalizeActionsString(arg[1]))

ApplySuppressActionsDiff ==
    Apply("suppressActionsDiff", suppressActionsDiff(arg[1], arg[2]))

ApplySuppressDefault ==
    Apply("suppressDefault", suppressDefault(arg.defaultValue, arg.old, arg.new))

ApplyCalculateWebhookPriority ==
    Apply("calculateWebhookPriority", calculateWebhookPriority(arg.severity, arg.precision))

ApplyGetCalculatedPriority ==
    Apply("getCalculatedPriority", getCalculatedPriority(arg))

ApplyGetSavedSearchesConfig ==
    Apply("getSavedSearchesConfig", WebhookConfig(arg))

ApplyUpgrade ==
    Apply("resourceAlertTrackStateUpgradeV0", resourceAlertTrackStateUpgradeV0(arg))

ApplyReadActions == Apply("readActions", ReadActions(arg[1]))

\* One refresh and plan of a field with a server-side default: the read
\* stores what the server reports unless it is the default, and the plan
\* compares the stored view with the configuration.  It may be repeated.
ReadThenDiff ==
    /\ fn = "readThenDiff"
    /\ \E remoteValue \in FieldTexts :
         LET stored == SetUnlessDefault(arg.stored, remoteValue, arg.defaultValue)
         IN /\ arg' = [arg EXCEPT !.stored = stored]
            /\ ret' = << [remote |-> remoteValue,
                          significant |->
                              SignificantDefault(arg.defaultValue, stored, arg.config)] >>
    /\ UNCHANGED <<d, remote, op, calls, result, resp, destroyed, synced, streams, inflight, fn>>

\* One refresh and plan of the actions field.  It may be repeated.
ReadThenDiffActions ==
    /\ fn = "readThenDiffActions"
    /\ \E remoteValue \in PairStrings :
         LET stored == ReadActions(remoteValue)
         IN /\ arg' = [arg EXCEPT !.stored = stored]
            /\ ret' = << [remote |-> remoteValue,
                          significant |-> SignificantActions(stored, arg.config)] >>
    /\ UNCHANGED <<d, remote, op, calls, result, resp, destroyed, synced, streams, inflight, fn>>

FnNext ==
    \/ ApplyNormalize
    \/ ApplySuppressActionsDiff
    \/ ApplySuppressDefault
    \/ ApplyCalculateWebhookPriority
    \/ ApplyGetCalculatedPriority
    \/ ApplyGetSavedSearchesConfig
    \/ ApplyUpgrade
    \/ ApplyReadActions
    \/ ReadThenDiff
    \/ ReadThenDiffActions

FnSpec == FnInit /\ [][FnNext]_vars

----------------------------------------------------------------------------
(* Updates side by side: two handlers run at once, each on its own resource
   data, and the server sees their calls one at a time in any order *)

Workers == {1, 2}
Other(i) == CHOOSE j \in Workers : j # i

\* all three saved searches exist, created without an acl block
Settled == [n \in Names |-> Entity(Content("", ""), CreatedACL("nobody", "search"))]

\* the views the two Updates start from
UpdateViews ==
    [id : Names, name : Names, summary : {"", "custom summary"}, description : {""},
     acl : { <<ACL("carol", "myapp", "global")>>, <<ACL("bob", "myapp", "user")>> }]

\* how the server answers the closing read: a transport error, or a success
\* status with one entry
UpdateAnswers ==
    { q \in ReadAnswers : q.err \/ (q.status = 200 /\ q.parses /\ Len(q.names) = 1) }

\* a handler that has not issued a call yet
Entering(dd) == [view |-> dd, pc |-> "update", st |-> Start(dd, Settled)]

ConcInit ==
    /\ d = [id |-> NoId, name |-> <<"a">>, summary |-> "", description |-> "", acl |-> << >>]
    /\ remote = Settled
    /\ op = "none"
    /\ calls = << >>
    /\ result = Nil
    /\ resp = NoResponse
    /\ destroyed = FALSE
    /\ synced = "never"
    /\ streams = NoStreams
    /\ fn = "none"
    /\ arg = << >>
    /\ ret = << >>
    /\ inflight \in { [i \in Workers |-> Entering(IF i = 1 THEN d1 ELSE d2)] :
                         d1 \in { v \in UpdateViews : v.id = v.name },
                         d2 \in { v \in UpdateViews : v.id = v.name } }

\* One call of handler i reaches the server: the handler's record is run
\* against the server's saved searches, which take the call's effect
Advance(i, next, after) ==
    /\ remote' = after.remote
    /\ inflight' = [inflight EXCEPT
                       ![i].st = [after EXCEPT !.remote = Settled],
                       ![i].pc = IF after.result = Running THEN next ELSE "done"]
    /\ UNCHANGED <<d, op, calls, result, resp, destroyed, synced, streams, fn, arg, ret>>

\* the handler's record, facing the server as it is now
Facing(i) == [inflight[i].st EXCEPT !.remote = remote]

\* savedSearchesUpdate, first call: the entity-update
UpdateEntity(i) ==
    /\ inflight[i].pc = "update"
    /\ \E updateFault \in BOOLEAN :
         LET dd == inflight[i].view
             aclObject == getACLConfig(dd.acl)
         IN Advance(i, "acl",
                    UpdateSavedSearches(Facing(i), dd.id, UpdateOwner(aclObject),
                                        aclObject.app, getSavedSearchesConfig(dd),
                                        updateFault))

\* savedSearchesUpdate, second call: the permission-update
UpdatePermissions(i) ==
    /\ inflight[i].pc = "acl"
    /\ \E aclFault \in BOOLEAN :
         LET dd == inflight[i].view
             aclObject == getACLConfig(dd.acl)
         IN Advance(i, "read",
                    UpdateAcl(Facing(i), UpdateOwner(aclObject), aclObject.app, dd.id,
                              aclObject, aclFault))

\* savedSearchesUpdate, last call: the closing read
UpdateRead(i) ==
    /\ inflight[i].pc = "read"
    /\ \E q \in UpdateAnswers : Advance(i, "done", savedSearchesRead(Facing(i), q))

ConcNext ==
    \E i \in Workers : UpdateEntity(i) \/ UpdatePermissions(i) \/ UpdateRead(i)

ConcSpec == ConcInit /\ [][ConcNext]_vars

----------------------------------------------------------------------------
(* Properties *)

Last(s) == s[Len(s)]

CallsNamed(cs, kind) == { i \in 1..Len(cs) : cs[i].call = kind }

\* C1: every Update issues its entity-update and its permission-update under
\* one owner, which is "nobody" when the sharing of the view's ACL is not
\* "user" and the ACL's owner when it is.
C1_UpdateOwnerResolved ==
    [][op' = "Update" =>
         LET sharing == IF d.acl = << >> THEN "" ELSE d.acl[1].sharing
             requested == IF d.acl = << >> THEN "" ELSE d.acl[1].owner
             expected == IF sharing = "user" THEN requested ELSE "nobody"
         IN /\ Len(calls') >= 1
            /\ calls'[1].call = "update"
            /\ \A i \in 1..Len(calls') :
                 calls'[i].call \in {"update", "acl"} => calls'[i].owner = expected]_vars

\* C1 witness: sharing "global", owner "carol": both calls went out as "nobody"
C1_Witness ==
    /\ op = "Update"
    /\ Len(calls) >= 2
    /\ calls[1].call = "update" /\ calls[1].owner = "nobody"
    /\ calls[2].call = "acl" /\ calls[2].owner = "nobody" /\ calls[2].ok
    /\ calls[2].acl.sharing = "global" /\ calls[2].acl.owner = "carol"

\* C2: a Create whose view holds no acl block creates the entity under owner
\* "nobody" and app "search", issues no permission-update, and its only calls
\* are the entity-create and, after it succeeded, the read.
C2_CreateWithoutACL ==
    [][op' = "Create" /\ d.acl = << >> =>
         /\ Len(calls') >= 1
         /\ calls'[1].call = "create"
         /\ calls'[1].name = d.name
         /\ calls'[1].owner = "nobody"
         /\ calls'[1].app = "search"
         /\ CallsNamed(calls', "acl") = {}
         /\ IF calls'[1].ok
            THEN Len(calls') = 2 /\ calls'[2].call = "read"
            ELSE Len(calls') = 1]_vars

\* C2 witness: a Create that went through with a create and a read only
C2_Witness ==
    /\ op = "Create"
    /\ result = Nil
    /\ Len(calls) = 2
    /\ calls[1].call = "create" /\ calls[1].ok
    /\ calls[1].owner = "nobody" /\ calls[1].app = "search"
    /\ calls[2].call = "read"

\* C3: a Create whose view holds an acl block creates the entity under the
\* block's owner and app as written, and after a successful create issues
\* exactly one permission-update with the same owner, app and ACL, before
\* the read; no permission-update follows a failed create.
C3_CreateWithACL ==
    [][op' = "Create" /\ d.acl # << >> =>
         LET b == d.acl[1]
         IN /\ Len(calls') >= 1
            /\ calls'[1].call = "create"
            /\ calls'[1].name = d.name
            /\ calls'[1].owner = b.owner
            /\ calls'[1].app = b.app
            /\ IF ~calls'[1].ok THEN Len(calls') = 1
               ELSE /\ Len(calls') >= 2
                    /\ calls'[2].call = "acl"
                    /\ calls'[2].name = d.name
                    /\ calls'[2].owner = b.owner
                    /\ calls'[2].app = b.app
                    /\ calls'[2].acl = b
                    /\ CallsNamed(calls', "acl") = {2}
                    /\ IF calls'[2].ok
                       THEN Len(calls') = 3 /\ calls'[3].call = "read"
                       ELSE Len(calls') = 2]_vars

\* C3 witness: a shared ACL owned by carol: created and permitted as carol
C3_Witness ==
    /\ op = "Create"
    /\ Len(calls) = 3
    /\ calls[1].call = "create" /\ calls[1].owner = "carol" /\ calls[1].app = "myapp"
    /\ calls[2].call = "acl" /\ calls[2].owner = "carol"
    /\ calls[2].acl = ACL("carol", "myapp", "global")
    /\ calls[3].call = "read"

\* C4: an Update issues entity-update, then permission-update, then the read:
\* the permission-update follows every successful entity-update and nothing
\* else, the read follows every successful permission-update, and an Update
\* that returned nil issued all three.
C4_UpdateOrder ==
    op = "Update" =>
        /\ Len(calls) >= 1
        /\ calls[1].call = "update"
        /\ IF ~calls[1].ok THEN Len(calls) = 1
           ELSE /\ Len(calls) >= 2
                /\ calls[2].call = "acl"
                /\ IF ~calls[2].ok THEN Len(calls) = 2
                   ELSE Len(calls) = 3 /\ calls[3].call = "read"
        /\ (result = Nil => Len(calls) = 3)

\* C4 witness: a successful Update
C4_Witness ==
    /\ op = "Update"
    /\ result = Nil
    /\ Len(calls) = 3
    /\ calls[1].ok /\ calls[2].ok /\ calls[3].ok

C6_FirstErrorEnds ==
    op \in {"Create", "Read", "Update", "Delete"} =>
        \A i \in 1..Len(calls) :
            ~calls[i].ok => i = Len(calls) /\ result.kind = "error"

\* C6 witness: an Update ended by its failed permission-update
C6_Witness ==
    /\ op = "Update"
    /\ Len(calls) = 2
    /\ calls[2].call = "acl" /\ ~calls[2].ok
    /\ result.kind = "error"

\* the entries of a 2xx response, and those whose name is the requested one
RequestedName == Last(calls).name
Named(entries, name) == { i \in 1..Len(entries) : entries[i].name = name }

\* C7: a read that received a 2xx response returns nil with the view taken
\* from an entry whose name equals the requested name, and returns the
\* not-found error when the response holds no such entry.
C7_ExactNameMatch ==
    (op = "Read" /\ ~resp.err /\ resp.status \in {200, 201}) =>
        LET entries == resp.body.entry
            same == Named(entries, RequestedName)
        IN IF same = {} THEN result = Err("Unable to find resource")
           ELSE /\ result = Nil
                /\ \E i \in same : d.acl = << entries[i].acl >>

\* the entry a successful read took the view from
ReadEntry == FirstMatch(RequestedName, resp.body.entry)[1]

\* C8: after a successful Read whose entry carries the sentinel in a Jira
\* field, that field of the stored view is empty.
C8_SentinelReadsAsUnset ==
    (op = "Read" /\ result = Nil) =>
        /\ (ReadEntry.content.summary = JiraSummaryDefault => d.summary = "")
        /\ (ReadEntry.content.description = JiraDescriptionDefault => d.description = "")

\* C9: Delete returns nil for the statuses 200 and 201 whatever the body, and
\* for every other status the error whose message is the text of the first
\* message of the envelope.
C9_DeleteResult ==
    (op = "Delete" /\ ~resp.err) =>
        IF resp.status \in {200, 201} THEN result = Nil
        ELSE Len(resp.body.messages) > 0 => result = Err(resp.body.messages[1])

\* C9 witness: 404 with the message "no such entity" first of two
C9_Witness ==
    /\ op = "Delete"
    /\ ~resp.err
    /\ resp.status = 404
    /\ Len(resp.body.messages) = 2
    /\ resp.body.messages[1] = "no such entity"
    /\ resp.body.messages[2] # "no such entity"
    /\ result = Err("no such entity")

\* C10: a Read or Delete that received an error status with a body that does
\* not parse, or with no message in it, returns an error.
C10_DecodeFailureIsError ==
    (/\ op \in {"Read", "Delete"}
     /\ ~resp.err
     /\ resp.status \notin {200, 201}
     /\ (~resp.body.parses \/ resp.body.messages = << >>))
        => result.kind = "error"

----------------------------------------------------------------------------
(* Action lists, described by position rather than computed *)

\* the positions that delimit the fields of a list: before it, its commas, after it
Delims(s) == {0} \cup {i \in 1..Len(s) : s[i] = ","} \cup {Len(s) + 1}

\* where a field starts: every delimiter but the end
Starts(s) == Delims(s) \ {Len(s) + 1}

\* the field that follows the delimiter b
FieldAfter(s, b) ==
    LET e == CHOOSE c \in Delims(s) :
                 c > b /\ \A c2 \in Delims(s) : c2 > b => c <= c2
    IN SubSeq(s, b + 1, e - 1)

\* a field without the whitespace around it
Trimmed(f) ==
    LET ink == {i \in 1..Len(f) : ~IsSpace(f[i])}
    IN IF ink = {} THEN << >>
       ELSE SubSeq(f, CHOOSE i \in ink : \A j \in ink : i <= j,
                      CHOOSE i \in ink : \A j \in ink : j <= i)

\* the trimmed, non-empty members of a list, and how often each occurs
MemberSet(s) == {Trimmed(FieldAfter(s, b)) : b \in Starts(s)} \ {<< >>}
Count(s, t) == Cardinality({b \in Starts(s) : Trimmed(FieldAfter(s, b)) = t})
SameMembers(x, y) ==
    /\ MemberSet(x) = MemberSet(y)
    /\ \A t \in MemberSet(x) : Count(x, t) = Count(y, t)

\* x is y or comes before y in lexicographic order
LexLE(x, y) ==
    \/ x = y
    \/ \E k \in 1..Len(y) :
          /\ k <= Len(x) + 1
          /\ SubSeq(x, 1, k - 1) = SubSeq(y, 1, k - 1)
          /\ (k = Len(x) + 1 \/ Code(x[k]) < Code(y[k]))

Applied(name) == fn = name /\ ret # << >>

\* C11: normalize(raw) is the comma-join of the fields of raw, each trimmed,
\* the empty ones discarded, the rest sorted in ascending lexicographic
\* order; an input with no non-empty member yields the empty string
C11_NormalizeContract ==
    Applied("normalizeActionsString") =>
        LET raw == arg[1]
            r == ret[1]
        IN IF MemberSet(raw) = {} THEN r = << >>
           ELSE /\ \A b \in Starts(r) :
                     /\ FieldAfter(r, b) # << >>
                     /\ FieldAfter(r, b) = Trimmed(FieldAfter(r, b))
                /\ SameMembers(r, raw)
                /\ \A b1, b2 \in Starts(r) :
                     b1 < b2 => LexLE(FieldAfter(r, b1), FieldAfter(r, b2))

\* "b, a,a" was normalized: trimmed, sorted, both occurrences of a kept
C11_Witness ==
    /\ Applied("normalizeActionsString")
    /\ arg[1] = ExampleList
    /\ ret[1] = <<"a", ",", "a", ",", "b">>

\* C12: normalize is idempotent: normalizing a normalized list changes nothing
C12_NormalizeIdempotent ==
    Applied("normalizeActionsString") => normalizeActionsString(ret[1]) = ret[1]

\* a list that normalization changed, and whose result is not empty
C12_Witness ==
    /\ Applied("normalizeActionsString")
    /\ ret[1] # arg[1]
    /\ ret[1] # << >>
    /\ Len(arg[1]) = MaxLen

\* C13, as stated: two lists are reported equal iff their sets of trimmed,
\* non-empty members are equal, repetition not being significant, and
\* normalize("b, a,a") is "a,b"
C13_EqualAsSets ==
    /\ Applied("suppressActionsDiff") =>
           (ret[1] <=> MemberSet(arg[1]) = MemberSet(arg[2]))
    /\ Applied("normalizeActionsString") /\ arg[1] = ExampleList =>
           ret[1] = ExampleOnce

\* C13, amended: two lists are reported equal iff they have the same trimmed,
\* non-empty members, each as often in one as in the other: order and
\* whitespace are not significant, repetition is; normalize("b, a,a") is "a,a,b"
C13_EqualAsMultisets ==
    /\ Applied("suppressActionsDiff") =>
           (ret[1] <=> SameMembers(arg[1], arg[2]))
    /\ Applied("normalizeActionsString") /\ arg[1] = ExampleList =>
           ret[1] = <<"a", ",", "a", ",", "b">>

\* "b, a,a" and "a, b ,a" were compared and reported equal
C13_Witness ==
    /\ Applied("suppressActionsDiff")
    /\ arg = <<ExampleList, ExampleReordered>>
    /\ ret[1] = TRUE

\* the diff of a field: old is the value in the stored view (observed), new the
\* value of the configuration (desired)
Observed == arg.old
Desired == arg.new

\* C14: isInsignificant(desired, observed, defaultValue) is true exactly when
\* observed = defaultValue and desired = "": true for desired "" and observed
\* D for every sentinel D, false for a non-empty desired value and for an
\* observed value other than the sentinel
C14_InsignificantExactly ==
    Applied("suppressDefault") =>
        /\ ret[1] <=> (Observed = arg.defaultValue /\ Desired = "")
        /\ Desired = "" /\ Observed = arg.defaultValue => ret[1]
        /\ Desired # "" => ~ret[1]
        /\ Observed # arg.defaultValue => ~ret[1]

\* the stored view holds the sentinel, the configuration leaves the field empty
C14_Witness ==
    /\ Applied("suppressDefault")
    /\ Observed = JiraSummaryDefault
    /\ arg.defaultValue = JiraSummaryDefault
    /\ Desired = ""
    /\ ret[1] = TRUE

\* the table of priorities, by severity and precision
PriorityTable ==
    [sp \in {"Critical", "High", "Medium", "Low"} \X {"High", "Medium", "Low"} |->
        IF sp = <<"Critical", "High">> THEN 4
        ELSE IF sp \in {<<"Critical", "Medium">>, <<"High", "High">>, <<"High", "Medium">>} THEN 3
        ELSE IF sp \in {<<"Critical", "Low">>, <<"High", "Low">>,
                         <<"Medium", "High">>, <<"Medium", "Medium">>} THEN 2
        ELSE 1]

\* C15: derive(severity, precision) returns the table value, 1 for every pair
\* outside the table (an empty or unrecognized severity or precision), and
\* always a value in 1..4
C15_DeriveTable ==
    Applied("calculateWebhookPriority") =>
        LET sp == <<arg.severity, arg.precision>>
        IN /\ ret[1] = (IF sp \in DOMAIN PriorityTable THEN PriorityTable[sp] ELSE 1)
           /\ arg.severity = "Low" => ret[1] = 1
           /\ ret[1] \in 1..4

\* Critical with High gave 4, and an unrecognized severity gave 1
C15_Witness ==
    /\ Applied("calculateWebhookPriority")
    /\ \/ arg.severity = "Critical" /\ arg.precision = "High" /\ ret[1] = 4
       \/ arg.severity = "Info" /\ arg.precision = "High" /\ ret[1] = 1

\* C16: effectivePriority returns the operator's override whenever one is
\* present, an override of zero included, and derive(severity, precision)
\* only when none is present
C16_OverrideWins ==
    Applied("getCalculatedPriority") =>
        ret[1] = (IF arg.prioritySet THEN arg.priority
                  ELSE calculateWebhookPriority(arg.severity, arg.precision))

\* the members of the normalized action set
ActionSet(s) == MemberSet(normalizeActionsString(s))

\* C17: the webhook flag of the payload is true iff "webhook" is a member of
\* the normalized action set of the desired actions (a name that only
\* contains "webhook" does not enable it), whatever severity, precision and
\* priority override are
C17_WebhookIsMember ==
    Applied("getSavedSearchesConfig") =>
        (ret[1].ActionWebhook <=> Webhook \in ActionSet(arg.actions))

\* the tracking field as version 0 persisted it
Tracking == Lookup(arg, "alert_track")

\* C18: the upgrade from version 0 fails with an error value whenever the
\* tracking field is absent or not stored as text: it neither crashes nor
\* returns an upgraded state
C18_UpgradeFailsWithError ==
    Applied("resourceAlertTrackStateUpgradeV0") /\ Tracking.type # "string" =>
        ret[1].err.kind = "error"

\* C19: the upgrade from version 0 replaces the text of the tracking field by
\* a boolean, true for "true" and false for "false", and leaves every other
\* field as it was; for "auto" it reports no error and stores false, as for
\* "false"
C19_UpgradeParsesText ==
    Applied("resourceAlertTrackStateUpgradeV0") /\ Tracking.type = "string" =>
        LET upgraded == ret[1].rawState
        IN /\ ret[1].err = Nil
           /\ DOMAIN upgraded = DOMAIN arg
           /\ \A k \in DOMAIN arg \ {"alert_track"} : upgraded[k] = arg[k]
           /\ upgraded["alert_track"].type = "bool"
           /\ Tracking.text = "true" => upgraded["alert_track"] = Bool(TRUE)
           /\ Tracking.text \in {"false", "auto"} => upgraded["alert_track"] = Bool(FALSE)

\* a state that held "auto" was upgraded, and holds false
C19_Witness ==
    /\ Applied("resourceAlertTrackStateUpgradeV0")
    /\ Tracking = Str("auto")
    /\ "search" \in DOMAIN arg
    /\ ret[1].err = Nil
    /\ ret[1].rawState["alert_track"] = Bool(FALSE)

----------------------------------------------------------------------------
(* The life of the resource *)

\* the state of the reconciler, read off the resource
Phase ==
    IF destroyed THEN "Deleted"
    ELSE IF d.id = NoId THEN "Absent"
    ELSE IF synced = "never" THEN "Created"
    ELSE IF synced = "yes" THEN "Synced"
    ELSE "Drifted"

Phases == {"Absent", "Created", "Synced", "Drifted", "Deleted"}

\* Absent -> Created -> {Synced <-> Drifted} -> Deleted; a Create that succeeds
\* goes from Absent through Created to Synced in one step, and a step may
\* leave the state where it is
ChainEdges ==
    { <<"Absent", "Created">>, <<"Absent", "Synced">>,
      <<"Created", "Synced">>, <<"Created", "Drifted">>,
      <<"Synced", "Drifted">>, <<"Drifted", "Synced">>,
      <<"Synced", "Deleted">>, <<"Drifted", "Deleted">> }
        \cup { <<p, p>> : p \in Phases }

\* what the lifecycle operations do to the state, apart from the edges
LifecycleSteps ==
    /\ op' = "Create" /\ result' = Nil =>
           /\ Phase = "Absent"
           /\ d'.id = d.name
           /\ Last(calls').call = "read"
           /\ Phase' = "Synced"
    /\ op' \in {"Read", "Update"} /\ result' = Nil => Phase' = "Synced"
    /\ Phase' = "Deleted" /\ Phase # "Deleted" =>
           op' = "Delete" /\ ~resp'.err /\ resp'.status \in {200, 201}
    /\ Phase = "Deleted" => Phase' = "Deleted"
    /\ Phase' = "Absent" => Phase = "Absent"

----------------------------------------------------------------------------
(* The name of the entity *)

\* C21: the name is immutable: Create records the name as the identifier,
\* the identifier never changes afterwards, every call of a later Read,
\* Update or Delete addresses the entity by it, and after every read that
\* succeeded the stored name is the identifier, whatever name the entry carries
C21_NameImmutable ==
    [][ /\ (op' = "Create" /\ d'.id # NoId => d'.id = d.name)
        /\ (d.id # NoId => d'.id = d.id)
        /\ (op' \in {"Read", "Update", "Delete"} =>
               \A i \in 1..Len(calls') : calls'[i].name = d.id)
        /\ (op' \in {"Create", "Read", "Update"} /\ result' = Nil => d'.name = d'.id)
      ]_vars

\* a read succeeded on an entry whose name is not the identifier
C21_Witness ==
    /\ op = "Read"
    /\ result = Nil
    /\ ReadEntry.name # d.id
    /\ d.name = d.id


----------------------------------------------------------------------------
(* What a handler leaves behind when it fails *)

\* C27: a Read that fails (the call errors, the status is not a success, or
\* no entry has the requested name) leaves the stored view as it was; the
\* same holds for the closing read of Create and Update, whose only write
\* before that read is the identifier
C27_FailedReadWritesNothing ==
    [][ /\ (op' = "Read" /\ result' # Nil => d' = d)
        /\ (op' \in {"Create", "Update"} /\ result' # Nil =>
               d' = [d EXCEPT !.id = d'.id])
      ]_vars

\* a read received a success status and entries, none under the requested
\* name, while the view held a summary and an acl
C27_Witness ==
    /\ op = "Read"
    /\ result = Err("Unable to find resource")
    /\ resp.status = 200
    /\ Len(resp.body.entry) = MaxEntries
    /\ d.summary = "custom summary"
    /\ d.acl # << >>

OkCalls(cs, kind) == { i \in CallsNamed(cs, kind) : cs[i].ok }
FailedCalls(cs, kind) == { i \in CallsNamed(cs, kind) : ~cs[i].ok }

\* C28: Create records the identifier only after the entity-create call
\* and, when an acl was supplied, the permission-update call have succeeded;
\* when the permission update fails it returns an error with no identifier
\* recorded although the entity exists remotely; when only the closing read
\* fails the identifier is recorded when the error is returned
C28_IdAfterCreateAndAcl ==
    [][ op' = "Create" =>
          /\ d'.id # NoId <=>
                /\ OkCalls(calls', "create") # {}
                /\ GetOkACL(d) => OkCalls(calls', "acl") # {}
          /\ FailedCalls(calls', "acl") # {} =>
                /\ result' # Nil
                /\ d'.id = NoId
                /\ remote'[d.name].exists
                /\ CallsNamed(calls', "read") = {}
          /\ CallsNamed(calls', "read") # {} /\ result' # Nil =>
                /\ d'.id = d.name
                /\ FailedCalls(calls', "create") \cup FailedCalls(calls', "acl") = {}
      ]_vars

\* the permission update of a Create failed: the entity exists, no identifier
C28_Witness ==
    /\ op = "Create"
    /\ FailedCalls(calls, "acl") # {}
    /\ OkCalls(calls, "create") # {}
    /\ remote[d.name].exists
    /\ d.id = NoId
    /\ result.kind = "error"

\* C29: only Update substitutes "nobody" for a shared entity: with an acl in
\* the view, the reads (those closing a Create or an Update included) and
\* the Delete are issued under the owner and app of that acl, while the
\* entity-update and permission-update of an Update on an acl whose sharing
\* is not "user" are issued under "nobody"
C29_OnlyUpdateSubstitutes ==
    [][ GetOkACL(d) =>
          LET acl == d.acl[1]
          IN /\ \A i \in CallsNamed(calls', "read") \cup CallsNamed(calls', "delete") :
                    calls'[i].owner = acl.owner /\ calls'[i].app = acl.app
             /\ op' = "Update" /\ acl.sharing # "user" =>
                    \A i \in CallsNamed(calls', "update") \cup CallsNamed(calls', "acl") :
                        calls'[i].owner = "nobody"
      ]_vars

\* an Update wrote under "nobody" and read under the acl's other owner
C29_Witness ==
    /\ op = "Update"
    /\ result = Nil
    /\ Len(calls) = 3
    /\ calls[1].call = "update" /\ calls[1].owner = "nobody"
    /\ calls[2].call = "acl" /\ calls[2].owner = "nobody"
    /\ calls[3].call = "read" /\ calls[3].owner = "carol"
    /\ calls[2].acl.sharing = "global"


----------------------------------------------------------------------------
(* Response bodies *)

----------------------------------------------------------------------------
(* The payload and the stored view *)

Payload == ret[1]

C24_DerivedWithoutOverride ==
    Applied("getSavedSearchesConfig") /\ ~arg.prioritySet =>
        Payload.ActionWebhookParamPriority =
            calculateWebhookPriority(arg.severity, arg.precision)

\* C25: the actions are in normal form where the reconciler writes them: the
\* value v a read stores and the value v of the payload satisfy
\* normalize(v) = v
C25_ActionsNormalForm ==
    /\ Applied("readActions") => normalizeActionsString(ret[1]) = ret[1]
    /\ Applied("getSavedSearchesConfig") =>
           normalizeActionsString(Payload.Actions) = Payload.Actions

\* a read stored the actions of an entry that were not in normal form
C25_Witness ==
    /\ Applied("readActions")
    /\ arg[1] = <<" ", "b", ",", ",", "a", " ">>
    /\ ret[1] = <<"a", ",", "b">>

\* C26: no perpetual diff: when the configuration leaves a field with a
\* server-side default unset and the server reports the default, the plan
\* after any number of reads shows no change of that field; nor does it for
\* actions whose desired and remote values differ in order or whitespace only
C26_NoPerpetualDiff ==
    /\ Applied("readThenDiff") /\ arg.config = "" /\ ret[1].remote = arg.defaultValue =>
           ~ret[1].significant
    /\ Applied("readThenDiffActions") /\ SameMembers(arg.config, ret[1].remote) =>
           ~ret[1].significant


----------------------------------------------------------------------------
(* Updates side by side *)

\* what an Update of the view dd may end as when it runs alone
AloneOutcomes(dd) ==
    { savedSearchesUpdate(dd, Settled, updateFault, aclFault, q) :
        updateFault \in BOOLEAN, aclFault \in BOOLEAN, q \in UpdateAnswers }

\* handler i ended as it could have alone, and so did its entity
AsAlone(i) ==
    LET dd == inflight[i].view
    IN \E alone \in AloneOutcomes(dd) :
          /\ alone.result = inflight[i].st.result
          /\ alone.d = inflight[i].st.d
          /\ alone.remote[dd.id] = remote[dd.id]

\* C22: operations on different names share no state: in any interleaving of
\* two Updates on different names, each leaves its entity and its stored
\* view as running alone would
C22_DifferentNamesIndependent ==
    inflight # << >> =>
        \A i \in Workers :
            /\ inflight[i].pc = "done"
            /\ inflight[i].view.id # inflight[Other(i)].view.id
            => AsAlone(i)

\* the second half of C22: two Updates on one name both returned nil, and
\* the entity holds the content of the second with the permissions of the first
C22_LostUpdate ==
    /\ inflight # << >>
    /\ inflight[1].view.id = inflight[2].view.id
    /\ inflight[1].view.summary # inflight[2].view.summary
    /\ inflight[1].view.acl # inflight[2].view.acl
    /\ \A i \in Workers : inflight[i].pc = "done" /\ inflight[i].st.result = Nil
    /\ remote[inflight[1].view.id].content = getSavedSearchesConfig(inflight[2].view)
    /\ remote[inflight[1].view.id].acl = inflight[1].view.acl[1]

====
